---- MODULE Spec2Model ----
(***************************************************************************)
(* A model of the pattern search engine of src/ai: build_index             *)
(* (05_build_index.py) builds a FAISS index of z-score-normalised price    *)
(* windows in batches and a row-aligned metadata table; search_pattern     *)
(* (06_search_pattern.py) queries the two persisted artifacts.             *)
(*                                                                         *)
(* Files are modelled at the granularity of one file operation per step,   *)
(* so that a query can interleave with a rebuild.  Numbers are fixed point *)
(* integers: shape vectors in 1/100, standard deviations in 1/1000000,     *)
(* returns in 1/10000.                                                     *)
(***************************************************************************)
EXTENDS Integers, Sequences, FiniteSets, TLC

(* The program's WINDOW_SIZE (30), PREDICT_HORIZON (5), BATCH_SIZE (500)   *)
(* and TOP_K (9), scaled down so that the state space is finite and small. *)
(* 05_build_index.py:10-12, 06_search_pattern.py:10-11.                    *)
WINDOW_SIZE == 2
PREDICT_HORIZON == 1
BATCH_SIZE == 2
TOP_K == 3

(* Bounds of the model. *)
NumSymbols == 3      \* symbols of the small dataset
MaxExtra == 1        \* a series has at most WINDOW_SIZE+PREDICT_HORIZON+MaxExtra points
MaxFaults == 1       \* injected failures (load, shard write, merge, crash) per behaviour
MaxRuns == 2         \* build_index runs per behaviour
MaxCallers == 2      \* search_pattern calls in progress at a time

(* 1e-6 of line 86 (and line 48 of the query), in units of 1/1000000. *)
EpsMicro == 1

(* A file that does not exist. *)
NoFile == [exists |-> FALSE, rows |-> <<>>, complete |-> FALSE, run |-> 0]

VARIABLES
    dataset,        \* dataset_ml_ready.parquet: rows (symbol, ts, close) in file order
    indexFile,      \* pattern_search.index on disk
    metaFile,       \* pattern_metadata.parquet on disk
    parts,          \* pattern_metadata_part_<chunk_idx>.parquet on disk: chunk_idx -> rows
    bpc,            \* build_index: position in the function
    index,          \* build_index: the in-memory faiss index (rows in add order)
    all_symbols,    \* build_index: the symbol list
    chunk_idx,      \* build_index: the batch loop's counter
    total_vectors,  \* build_index: the vector counter
    run,            \* history: number of build_index runs started
    faults,         \* history: failures injected so far
    loadFailed,     \* history: chunk_idx of the batches of this run whose load failed
    shardFailed,    \* history: chunk_idx of the batches of this run whose shard write failed
    prev,           \* history: the index and metadata files as they were when this run started
    b_out,          \* history: how the run ended (the message it printed last)
    qpc,            \* search_pattern: position in the function
    target_symbol,  \* search_pattern: its argument
    q_index,        \* search_pattern: index, as read from the index file
    query_vector,   \* search_pattern: the normalised query window
    found_ids,      \* search_pattern: I[0].tolist()
    results_list,   \* search_pattern: the ranked metadata rows
    match_vectors,  \* search_pattern: the vectors reconstruct() returned, per result
    win_rate,       \* search_pattern: in 1/100 of a percent
    avg_ret,        \* search_pattern: in 1/10000 of a percent
    q_out,          \* search_pattern: how the call ended
    q_meta,         \* history: the metadata file as the query's collect() read it
    q_partial,      \* history: whether the query read a file that was being written
    q_others        \* search_pattern: the locals of the other calls in progress

bvars == <<indexFile, metaFile, parts, bpc, index, all_symbols, chunk_idx,
           total_vectors, run, faults, loadFailed, shardFailed, prev, b_out>>
qvars == <<qpc, target_symbol, q_index, query_vector, found_ids, results_list,
           match_vectors, win_rate, avg_ret, q_out, q_meta, q_partial, q_others>>
vars == <<dataset, bvars, qvars>>

----------------------------------------------------------------------------
(* Arithmetic helpers *)

Min(a, b) == IF a < b THEN a ELSE b
Max(a, b) == IF a > b THEN a ELSE b

(* Division rounding toward zero. *)
Quot(a, b) == IF a < 0 THEN -((-a) \div b) ELSE a \div b

RECURSIVE SqrtSearch(_, _, _)
SqrtSearch(x, lo, hi) ==
    IF lo >= hi THEN lo
    ELSE LET mid == (lo + hi + 1) \div 2
         IN IF mid * mid <= x THEN SqrtSearch(x, mid, hi)
            ELSE SqrtSearch(x, lo, mid - 1)

(* floor(sqrt(x)) for 0 <= x < 2^31 *)
ISqrt(x) == SqrtSearch(x, 0, 46340)

RECURSIVE SumSeq(_)
SumSeq(s) == IF s = <<>> THEN 0 ELSE Head(s) + SumSeq(Tail(s))

RECURSIVE Concat(_)
Concat(ss) == IF ss = <<>> THEN <<>> ELSE Head(ss) \o Concat(Tail(ss))

(* Python's s[a:b] for 0 <= a, on a 1-based sequence. *)
Slice(s, a, b) == SubSeq(s, a + 1, Min(b, Len(s)))

Perms(S) ==
    {f \in [1..Cardinality(S) -> S] : \A i, j \in DOMAIN f : i # j => f[i] # f[j]}

RECURSIVE SortedSeq(_)
SortedSeq(S) ==
    IF S = {} THEN <<>>
    ELSE LET m == CHOOSE x \in S : \A y \in S : x <= y
         IN <<m>> \o SortedSeq(S \ {m})

Reverse(s) == [i \in 1..Len(s) |-> s[Len(s) + 1 - i]]

----------------------------------------------------------------------------
(* The source dataset *)

(* The close of symbol s at its t-th timestamp: a fixed price pattern per  *)
(* symbol (zigzag, falling, flat, rising, ...), values 1..4.               *)
Close(s, t) == 1 + ((s * t + t) % 4)

Series(s, len) == [t \in 1..len |-> [symbol |-> s, ts |-> t, close |-> Close(s, t)]]

(* The file holds the symbols' series one after the other, highest symbol  *)
(* first; lens[s] is the number of points of symbol s.                     *)
RECURSIVE DatasetRows(_, _)
DatasetRows(lens, s) ==
    IF s = 0 THEN <<>> ELSE Series(s, lens[s]) \o DatasetRows(lens, s - 1)

MinLen == WINDOW_SIZE + PREDICT_HORIZON - 1
MaxLen == WINDOW_SIZE + PREDICT_HORIZON + MaxExtra

SymbolsOf(rows) == {rows[i].symbol : i \in DOMAIN rows}

----------------------------------------------------------------------------
(* polars and numpy operations used by build_index *)

(* lf.select("symbol").unique().collect().to_series().to_list(): unique()  *)
(* keeps no order (maintain_order=False), so any order of the distinct     *)
(* symbols may come back.  Every order for a small dataset; ascending and  *)
(* descending for a large one.                                             *)
UniqueSymbolLists(rows) ==
    LET S == SymbolsOf(rows)
    IN IF Cardinality(S) <= NumSymbols THEN Perms(S)
       ELSE {SortedSeq(S), Reverse(SortedSeq(S))}

(* Line 43 with a range that stops before a last, shorter slice. *)
SymbolChunksFullOnly(symbols) ==
    [c \in 1..(Len(symbols) \div BATCH_SIZE) |->
        Slice(symbols, (c - 1) * BATCH_SIZE, (c - 1) * BATCH_SIZE + BATCH_SIZE)]

(* [all_symbols[i:i + BATCH_SIZE] for i in range(0, len(all_symbols), BATCH_SIZE)] *)
SymbolChunks(symbols) ==
    [c \in 1..((Len(symbols) + BATCH_SIZE - 1) \div BATCH_SIZE) |->
        Slice(symbols, (c - 1) * BATCH_SIZE, (c - 1) * BATCH_SIZE + BATCH_SIZE)]

RowLess(a, b) == a.symbol < b.symbol \/ (a.symbol = b.symbol /\ a.ts < b.ts)

RECURSIVE InsertRow(_, _)
InsertRow(sorted, r) ==
    IF sorted = <<>> THEN <<r>>
    ELSE IF RowLess(r, Head(sorted)) THEN <<r>> \o sorted
    ELSE <<Head(sorted)>> \o InsertRow(Tail(sorted), r)

RECURSIVE SortRows(_)
SortRows(rows) ==
    IF rows = <<>> THEN <<>> ELSE InsertRow(SortRows(Tail(rows)), Head(rows))

(* Line 49 without the sort: the batch's rows in the order of the file. *)
LoadBatchUnsorted(rows, symbols_batch) ==
    LET B == {symbols_batch[i] : i \in DOMAIN symbols_batch}
    IN SelectSeq(rows, LAMBDA r : r.symbol \in B)

(* lf.filter(pl.col("symbol").is_in(symbols_batch)).collect().sort(["symbol", "ts"]) *)
LoadBatch(rows, symbols_batch) ==
    LET B == {symbols_batch[i] : i \in DOMAIN symbols_batch}
    IN SortRows(SelectSeq(rows, LAMBDA r : r.symbol \in B))

(* The keys of df_batch.partition_by("symbol", as_dict=True): the symbols  *)
(* in order of first appearance (maintain_order defaults to True).         *)
RECURSIVE PartitionKeys(_)
PartitionKeys(df) ==
    IF df = <<>> THEN <<>>
    ELSE <<Head(df).symbol>> \o
         PartitionKeys(SelectSeq(Tail(df), LAMBDA r : r.symbol # Head(df).symbol))

SubFrame(df, sym) == SelectSeq(df, LAMBDA r : r.symbol = sym)

Column(df, name) == [i \in 1..Len(df) |-> df[i][name]]

(* sliding_window_view(x, window_shape=w) *)
SlidingWindows(x, w) ==
    IF Len(x) < w THEN <<>> ELSE [i \in 1..(Len(x) - w + 1) |-> SubSeq(x, i, i + w - 1)]

(* np.std of a vector (population standard deviation), in 1/1000000.  With *)
(* n = len, S = sum, d[i] = n*x[i] - S:  x[i] - mean = d[i]/n and          *)
(* std = sqrt(sum(d^2)/n^3).                                               *)
StdMicro(x) ==
    LET n == Len(x)
        S == SumSeq(x)
        d == [i \in 1..n |-> n * x[i] - S]
        sumsq == SumSeq([i \in 1..n |-> d[i] * d[i]])
    IN 1000 * ISqrt((sumsq * 1000000) \div (n * n * n))

(* Line 86 without the subtraction of the mean: window / (std + 1e-6). *)
ZScoreNoMean(window) ==
    [i \in 1..Len(window) |-> Quot(window[i] * 100000000, StdMicro(window) + EpsMicro)]

(* Lines 84-86: (window - mean) / (std + 1e-6), as a vector in 1/100.      *)
ZScore(window) ==
    LET n == Len(window)
        S == SumSeq(window)
        d == [i \in 1..n |-> n * window[i] - S]
    IN [i \in 1..n |-> Quot(d[i] * 100000000, n * (StdMicro(window) + EpsMicro))]

(* (future / current) - 1, in 1/10000 *)
FutureReturn(future, current) == Quot(future * 10000, current) - 10000

NoWindows == [vectors |-> <<>>, symbol |-> <<>>, date |-> <<>>, future_return |-> <<>>]

(* Line 75 with the slice starting one place late. *)
FuturePricesOneLate(closes) == Slice(closes, WINDOW_SIZE + PREDICT_HORIZON, Len(closes))

(* Line 75: closes[WINDOW_SIZE + PREDICT_HORIZON - 1:] *)
FuturePrices(closes) == Slice(closes, WINDOW_SIZE + PREDICT_HORIZON - 1, Len(closes))

(* Line 76: closes[WINDOW_SIZE - 1 : -PREDICT_HORIZON] *)
CurrentPrices(closes) == Slice(closes, WINDOW_SIZE - 1, Len(closes) - PREDICT_HORIZON)

(* Lines 72-94 for one symbol with enough points: the rows the symbol      *)
(* contributes, vectors and metadata in parallel lists.  raw, sym and end  *)
(* of a vector are history: they record the window it was computed from    *)
(* (its closes, the symbol and the timestamp of its last close), and no    *)
(* operation reads them.                                                   *)
ExtractWindows(sym, sub_df) ==
    LET closes == Column(sub_df, "close")
        dates == Column(sub_df, "ts")
        L == Len(closes)
        windows0 == SlidingWindows(Slice(closes, 0, L - PREDICT_HORIZON), WINDOW_SIZE)
        future_prices == FuturePrices(closes)
        current_prices == CurrentPrices(closes)
        min_len == Min(Len(windows0), Len(future_prices))
        windows == Slice(windows0, 0, min_len)
        future_ret == [j \in 1..min_len |-> FutureReturn(future_prices[j], current_prices[j])]
        valid_dates == Slice(dates, WINDOW_SIZE - 1, WINDOW_SIZE - 1 + min_len)
        norm_windows == [j \in 1..min_len |->
                            [vec |-> ZScore(windows[j]), raw |-> windows[j], sym |-> sym,
                             end |-> dates[j + WINDOW_SIZE - 1]]]
    IN [vectors |-> norm_windows,
        symbol |-> [j \in 1..min_len |-> sym],
        date |-> valid_dates,
        future_return |-> future_ret]

(* Lines 65-94 with the test of line 68 off by one: a series of exactly    *)
(* WINDOW_SIZE + PREDICT_HORIZON points is skipped.                        *)
SymbolWindowsSkipsShortest(sym, sub_df) ==
    IF Len(Column(sub_df, "close")) <= WINDOW_SIZE + PREDICT_HORIZON
    THEN NoWindows
    ELSE ExtractWindows(sym, sub_df)

(* Lines 65-94 for one symbol: a series shorter than WINDOW_SIZE +         *)
(* PREDICT_HORIZON is skipped.                                             *)
SymbolWindows(sym, sub_df) ==
    IF Len(Column(sub_df, "close")) < WINDOW_SIZE + PREDICT_HORIZON
    THEN NoWindows
    ELSE ExtractWindows(sym, sub_df)

(* Lines 54-94: the loop over dfs.items(), accumulating batch_vectors and  *)
(* the three lists of batch_metadata.                                      *)
RECURSIVE BatchLoop(_, _, _)
BatchLoop(df, keys, acc) ==
    IF keys = <<>> THEN acc
    ELSE LET w == SymbolWindows(Head(keys), SubFrame(df, Head(keys)))
         IN BatchLoop(df, Tail(keys),
                [vectors |-> acc.vectors \o w.vectors,
                 symbol |-> acc.symbol \o w.symbol,
                 date |-> acc.date \o w.date,
                 future_return |-> acc.future_return \o w.future_return])

ProcessBatch(df_batch) ==
    BatchLoop(df_batch, PartitionKeys(df_batch), NoWindows)

(* pl.DataFrame(batch_metadata, schema=schema): one row per list position *)
MetaFrame(batch_metadata) ==
    [j \in 1..Len(batch_metadata.symbol) |->
        [symbol |-> batch_metadata.symbol[j],
         date |-> batch_metadata.date[j],
         future_return |-> batch_metadata.future_return[j]]]

----------------------------------------------------------------------------
(* File names *)

(* The decimal digits of n >= 0, as f"{chunk_idx}" writes them. *)
RECURSIVE Digits(_)
Digits(n) == IF n < 10 THEN <<n>> ELSE Digits(n \div 10) \o <<n % 10>>

(* Whether "pattern_metadata_part_<a>.parquet" sorts before                *)
(* "pattern_metadata_part_<b>.parquet" as a string: the first differing    *)
(* digit decides, and a name that ends first ('.' sorts before a digit)    *)
(* comes first.                                                            *)
RECURSIVE SeqLexLess(_, _)
SeqLexLess(a, b) ==
    IF a = <<>> THEN b # <<>>
    ELSE IF b = <<>> THEN FALSE
    ELSE IF Head(a) # Head(b) THEN Head(a) < Head(b)
    ELSE SeqLexLess(Tail(a), Tail(b))

PartNameLess(a, b) == SeqLexLess(Digits(a), Digits(b))

(* The shard numbers in the order in which the glob                        *)
(* "pattern_metadata_part_*.parquet" is expanded: by file name.            *)
RECURSIVE GlobOrder(_)
GlobOrder(S) ==
    IF S = {} THEN <<>>
    ELSE LET m == CHOOSE x \in S : \A y \in S \ {x} : PartNameLess(x, y)
         IN <<m>> \o GlobOrder(S \ {m})

(* pl.read_parquet("pattern_metadata_part_*.parquet"): the shards' rows    *)
(* concatenated in glob order.                                             *)
ReadParts(p) ==
    LET order == GlobOrder(DOMAIN p)
    IN Concat([i \in 1..Len(order) |-> p[order[i]]])

----------------------------------------------------------------------------
(* The flat faiss index and its file *)

(* What an IndexFlatL2 stores: the float32 components of its vectors, row  *)
(* after row, in one array.                                                *)
Codes(rows) == Concat([r \in 1..Len(rows) |-> rows[r].vec])

(* Row r taken with a stride of d - 1 components. *)
StoredVectorShortStride(d, codes, r) == SubSeq(codes, r * (d - 1) + 1, r * (d - 1) + d)

(* The vector at row r (from 0) of an index of dimension d with storage    *)
(* codes: the d components from r * d on.                                  *)
StoredVector(d, codes, r) == SubSeq(codes, r * d + 1, r * d + d)

----------------------------------------------------------------------------
(* build_index, 05_build_index.py:16-143 *)

(* A file this run writes; run is history. *)
File(rows, complete) == [exists |-> TRUE, rows |-> rows, complete |-> complete, run |-> run]

(* faiss.write_index(index, INDEX_FILE) of an IndexFlatL2(d) holding rows: *)
(* a header with the dimension and the vector count, then the storage.     *)
(* rows is history: the rows as they were added.                           *)
WrittenIndex(d, rows) ==
    [exists |-> TRUE, rows |-> rows, complete |-> TRUE, run |-> run,
     d |-> d, ntotal |-> Len(rows), codes |-> Codes(rows)]

NumChunks == Len(SymbolChunks(all_symbols))

(* The batch the loop is at: df_batch and what lines 54-94 compute from it. *)
CurrentBatch == ProcessBatch(LoadBatch(dataset, SymbolChunks(all_symbols)[chunk_idx + 1]))

BuildStopped == bpc \in {"idle", "done", "read_failed", "crashed"}

(* Lines 19-26: a fresh in-memory index, and the symbol list. *)
ReadSymbols ==
    /\ BuildStopped
    /\ run < MaxRuns
    /\ \E symbols \in UniqueSymbolLists(dataset) : all_symbols' = symbols
    /\ index' = <<>>
    /\ run' = run + 1
    /\ bpc' = "rm_meta"
    /\ loadFailed' = {}
    /\ shardFailed' = {}
    /\ prev' = [index |-> indexFile, meta |-> metaFile]
    /\ b_out' = "none"
    /\ UNCHANGED <<qvars, dataset, indexFile, metaFile, parts, chunk_idx, total_vectors, faults>>

(* Lines 23-38 with the clean-up of lines 32-38 before the read of lines   *)
(* 23-29: the dataset cannot be read, and the old metadata and the old     *)
(* shards are gone when the function returns.                              *)
ReadSymbolsFailsAfterCleanup ==
    /\ BuildStopped
    /\ run < MaxRuns
    /\ faults < MaxFaults
    /\ faults' = faults + 1
    /\ index' = <<>>
    /\ run' = run + 1
    /\ bpc' = "read_failed"
    /\ prev' = [index |-> indexFile, meta |-> metaFile]
    /\ b_out' = "read_error"
    /\ metaFile' = NoFile
    /\ parts' = <<>>
    /\ UNCHANGED <<qvars, dataset, indexFile, all_symbols, chunk_idx,
                   total_vectors, loadFailed, shardFailed>>

(* Lines 27-29: the dataset cannot be read; the function returns. *)
ReadSymbolsFails ==
    /\ BuildStopped
    /\ run < MaxRuns
    /\ faults < MaxFaults
    /\ faults' = faults + 1
    /\ index' = <<>>
    /\ run' = run + 1
    /\ bpc' = "read_failed"
    /\ prev' = [index |-> indexFile, meta |-> metaFile]
    /\ b_out' = "read_error"
    /\ UNCHANGED <<qvars, dataset, indexFile, metaFile, parts, all_symbols, chunk_idx,
                   total_vectors, loadFailed, shardFailed>>

(* Lines 32-33 *)
RemoveOldMeta ==
    /\ bpc = "rm_meta"
    /\ metaFile' = NoFile
    /\ bpc' = "rm_parts"
    /\ UNCHANGED <<qvars, b_out, dataset, prev, indexFile, parts, index, all_symbols, chunk_idx,
                   total_vectors, run, faults, loadFailed, shardFailed>>

(* Lines 36-43 *)
RemoveOldParts ==
    /\ bpc = "rm_parts"
    /\ parts' = <<>>
    /\ total_vectors' = 0
    /\ chunk_idx' = 0
    /\ bpc' = "batches"
    /\ UNCHANGED <<qvars, b_out, dataset, prev, indexFile, metaFile, index, all_symbols, run, faults,
                   loadFailed, shardFailed>>

(* Lines 36-43 with os.remove raising for an old shard (a file in use, a   *)
(* permission): the exception is passed over and the shard stays on disk.  *)
(* One shard stays here; the others are removed.                           *)
RemoveOldPartsFails ==
    /\ bpc = "rm_parts"
    /\ \E c \in DOMAIN parts : parts' = (c :> parts[c])
    /\ total_vectors' = 0
    /\ chunk_idx' = 0
    /\ bpc' = "batches"
    /\ UNCHANGED <<qvars, b_out, dataset, prev, indexFile, metaFile, index, all_symbols, run,
                   faults, loadFailed, shardFailed>>

(* Lines 48-52: the batch's load raises; the loop continues. *)
BatchLoadFails ==
    /\ bpc = "batches"
    /\ chunk_idx < NumChunks
    /\ faults < MaxFaults
    /\ faults' = faults + 1
    /\ loadFailed' = loadFailed \cup {chunk_idx}
    /\ chunk_idx' = chunk_idx + 1
    /\ UNCHANGED <<qvars, b_out, dataset, prev, indexFile, metaFile, parts, bpc, index, all_symbols,
                   total_vectors, run, shardFailed>>

(* Lines 48-121 with the load and the shard write succeeding. *)
BatchDone ==
    /\ bpc = "batches"
    /\ chunk_idx < NumChunks
    /\ LET b == CurrentBatch
       IN IF b.vectors # <<>>
          THEN /\ index' = index \o b.vectors
               /\ total_vectors' = total_vectors + Len(b.vectors)
               /\ parts' = (chunk_idx :> MetaFrame(b)) @@ parts
          ELSE UNCHANGED <<index, total_vectors, parts>>
    /\ chunk_idx' = chunk_idx + 1
    /\ UNCHANGED <<qvars, b_out, dataset, prev, indexFile, metaFile, bpc, all_symbols, run, faults,
                   loadFailed, shardFailed>>

(* Lines 97-117 with the shard write raising: the vectors are in the index, *)
(* the exception is printed and the loop continues.                        *)
BatchShardWriteFails ==
    /\ bpc = "batches"
    /\ chunk_idx < NumChunks
    /\ faults < MaxFaults
    /\ LET b == CurrentBatch
       IN /\ b.vectors # <<>>
          /\ index' = index \o b.vectors
          /\ total_vectors' = total_vectors + Len(b.vectors)
    /\ faults' = faults + 1
    /\ shardFailed' = shardFailed \cup {chunk_idx}
    /\ chunk_idx' = chunk_idx + 1
    /\ UNCHANGED <<qvars, b_out, dataset, prev, indexFile, metaFile, parts, bpc, all_symbols, run, loadFailed>>

(* Line 125, faiss.write_index: the file is opened (created or truncated)... *)
WriteIndexBegin ==
    /\ bpc = "batches"
    /\ chunk_idx = NumChunks
    /\ indexFile' = File(<<>>, FALSE)
    /\ bpc' = "index_writing"
    /\ UNCHANGED <<qvars, b_out, dataset, prev, metaFile, parts, index, all_symbols, chunk_idx,
                   total_vectors, run, faults, loadFailed, shardFailed>>

(* ... and holds the whole index once the write has finished. *)
WriteIndexEnd ==
    /\ bpc = "index_writing"
    /\ indexFile' = WrittenIndex(WINDOW_SIZE, index)
    /\ bpc' = "merge"
    /\ UNCHANGED <<qvars, b_out, dataset, prev, metaFile, parts, index, all_symbols, chunk_idx,
                   total_vectors, run, faults, loadFailed, shardFailed>>

(* Lines 129-130, 142-143: no shard on disk; the warning that no metadata  *)
(* was produced.                                                           *)
MergeNothing ==
    /\ bpc = "merge"
    /\ DOMAIN parts = {}
    /\ bpc' = "done"
    /\ b_out' = "no_metadata"
    /\ UNCHANGED <<qvars, dataset, prev, indexFile, metaFile, parts, index, all_symbols, chunk_idx,
                   total_vectors, run, faults, loadFailed, shardFailed>>

(* Line 133 with the removal of lines 136-137 moved before the write: the  *)
(* shards are read and removed, and write_parquet opens the metadata file. *)
MergeBeginRemovesShards ==
    /\ bpc = "merge"
    /\ DOMAIN parts # {}
    /\ parts' = <<>>
    /\ metaFile' = File(<<>>, FALSE)
    /\ bpc' = "meta_writing"
    /\ UNCHANGED <<qvars, b_out, dataset, prev, indexFile, index, all_symbols, chunk_idx,
                   total_vectors, run, faults, loadFailed, shardFailed>>

(* Line 133: the shards are read and write_parquet opens the metadata file... *)
MergeBegin ==
    /\ bpc = "merge"
    /\ DOMAIN parts # {}
    /\ metaFile' = File(<<>>, FALSE)
    /\ bpc' = "meta_writing"
    /\ UNCHANGED <<qvars, b_out, dataset, prev, indexFile, parts, index, all_symbols, chunk_idx,
                   total_vectors, run, faults, loadFailed, shardFailed>>

(* ... which holds the merged table once the write has finished. *)
MergeEnd ==
    /\ bpc = "meta_writing"
    /\ metaFile' = File(ReadParts(parts), TRUE)
    /\ bpc' = "rm_new_parts"
    /\ UNCHANGED <<qvars, b_out, dataset, prev, indexFile, parts, index, all_symbols, chunk_idx,
                   total_vectors, run, faults, loadFailed, shardFailed>>

(* Lines 136-138 *)
RemoveParts ==
    /\ bpc = "rm_new_parts"
    /\ parts' = <<>>
    /\ bpc' = "done"
    /\ b_out' = "complete"
    /\ UNCHANGED <<qvars, dataset, prev, indexFile, metaFile, index, all_symbols, chunk_idx,
                   total_vectors, run, faults, loadFailed, shardFailed>>

(* Lines 136-141 with os.remove raising for a shard: the shards removed    *)
(* before it are gone, that shard and the ones after it in all_parts stay  *)
(* (all_parts taken in file-name order), and the handler of line 139       *)
(* prints the merge error although the metadata file is written.           *)
RemovePartsFails ==
    /\ bpc = "rm_new_parts"
    /\ faults < MaxFaults
    /\ \E f \in DOMAIN parts :
           parts' = [c \in {x \in DOMAIN parts : x = f \/ PartNameLess(f, x)} |-> parts[c]]
    /\ faults' = faults + 1
    /\ bpc' = "done"
    /\ b_out' = "merge_error"
    /\ UNCHANGED <<qvars, dataset, prev, indexFile, metaFile, index, all_symbols, chunk_idx,
                   total_vectors, run, loadFailed, shardFailed>>

(* Lines 139-141: reading the shards or writing the metadata file raises;  *)
(* the shards stay, and so does whatever the write left of the file.       *)
MergeFails ==
    /\ bpc \in {"merge", "meta_writing"}
    /\ DOMAIN parts # {}
    /\ faults < MaxFaults
    /\ faults' = faults + 1
    /\ bpc' = "done"
    /\ b_out' = "merge_error"
    /\ UNCHANGED <<qvars, dataset, prev, indexFile, metaFile, parts, index, all_symbols, chunk_idx,
                   total_vectors, run, loadFailed, shardFailed>>

(* The process dies (killed, or an exception no handler catches, such as   *)
(* one of faiss.write_index at line 125) between two file operations.      *)
BuildCrash ==
    /\ ~BuildStopped
    /\ faults < MaxFaults
    /\ faults' = faults + 1
    /\ bpc' = "crashed"
    /\ b_out' = "uncaught"
    /\ UNCHANGED <<qvars, dataset, prev, indexFile, metaFile, parts, index, all_symbols, chunk_idx,
                   total_vectors, run, loadFailed, shardFailed>>

BuildStart ==
    \/ ReadSymbols
    \/ ReadSymbolsFails

BuildStep ==
    \/ RemoveOldMeta
    \/ RemoveOldParts
    \/ RemoveOldPartsFails
    \/ BatchLoadFails
    \/ BatchDone
    \/ BatchShardWriteFails
    \/ WriteIndexBegin
    \/ WriteIndexEnd
    \/ MergeNothing
    \/ MergeBegin
    \/ MergeEnd
    \/ RemoveParts
    \/ RemovePartsFails
    \/ MergeFails
    \/ BuildCrash

BuildNext == BuildStart \/ BuildStep

----------------------------------------------------------------------------
(* faiss operations used by search_pattern *)

(* Squared Euclidean distance (IndexFlatL2), in 1/10000. *)
L2Sqr(a, b) == SumSeq([i \in 1..Len(a) |-> (a[i] - b[i]) * (a[i] - b[i])])

(* The ways to list the k nearest of the row ids in ids, nearest first;    *)
(* rows at the same distance may come in any order.                        *)
RECURSIVE NearestLists(_, _, _, _)
NearestLists(idx, q, ids, k) ==
    IF k = 0 \/ ids = {} THEN {<<>>}
    ELSE LET nearest == {m \in ids : \A o \in ids :
                            L2Sqr(StoredVector(idx.d, idx.codes, m), q)
                                <= L2Sqr(StoredVector(idx.d, idx.codes, o), q)}
         IN UNION {{<<m>> \o t : t \in NearestLists(idx, q, ids \ {m}, k - 1)} :
                   m \in nearest}

(* index.search(query_vector, k): the labels I[0] it may return; -1 fills  *)
(* the places for which the index has no row.                              *)
IndexSearch(idx, q, k) ==
    {f \o [i \in 1..(k - Len(f)) |-> -1] :
        f \in NearestLists(idx, q, 0..(idx.ntotal - 1), k)}

(* index.reconstruct(row_id): a copy of the stored vector. *)
Reconstruct(idx, row_id) == StoredVector(idx.d, idx.codes, row_id)

----------------------------------------------------------------------------
(* polars and Python operations used by search_pattern *)

(* .with_row_index("row_id") *)
WithRowIndex(rows) ==
    [i \in 1..Len(rows) |->
        [row_id |-> i - 1, symbol |-> rows[i].symbol, date |-> rows[i].date,
         future_return |-> rows[i].future_return]]

(* lf_meta.filter(pl.col("row_id").is_in(found_ids)).collect(): the rows   *)
(* whose row_id is one of found_ids, as a set; the frame lists them in     *)
(* some order.                                                             *)
MetaLookup(meta_rows, ids) ==
    LET lf == WithRowIndex(meta_rows)
    IN {lf[i] : i \in {j \in DOMAIN lf : \E p \in DOMAIN ids : ids[p] = lf[j].row_id}}

(* order_map = {id_: i for i, id_ in enumerate(found_ids)}: the last       *)
(* position of each id.                                                    *)
OrderMap(ids) ==
    [id \in {ids[p] : p \in DOMAIN ids} |->
        (CHOOSE p \in DOMAIN ids : ids[p] = id /\ \A r \in DOMAIN ids : ids[r] = id => r <= p) - 1]

(* key=lambda x: order_map.get(x['row_id'], 999) *)
SortKey(order_map, x) ==
    IF x.row_id \in DOMAIN order_map THEN order_map[x.row_id] ELSE 999

(* list.sort(key=...): stable, ascending by key. *)
RECURSIVE InsertByKey(_, _, _)
InsertByKey(sorted, x, order_map) ==
    IF sorted = <<>> THEN <<x>>
    ELSE IF SortKey(order_map, x) < SortKey(order_map, Head(sorted)) THEN <<x>> \o sorted
    ELSE <<Head(sorted)>> \o InsertByKey(Tail(sorted), x, order_map)

RECURSIVE SortByKey(_, _)
SortByKey(list, order_map) ==
    IF list = <<>> THEN <<>>
    ELSE InsertByKey(SortByKey(SubSeq(list, 1, Len(list) - 1), order_map),
                     list[Len(list)], order_map)

(* Lines 63-65 *)
RankResults(df_results, ids) == SortByKey(df_results, OrderMap(ids))

(* Line 36 with head() for tail(): the first WINDOW_SIZE rows. *)
TargetHead(rows, sym) ==
    LET df == SelectSeq(rows, LAMBDA r : r.symbol = sym)
    IN SubSeq(df, 1, Min(WINDOW_SIZE, Len(df)))

(* df_prices.filter(pl.col("symbol") == target_symbol).tail(WINDOW_SIZE) *)
TargetTail(rows, sym) ==
    LET df == SelectSeq(rows, LAMBDA r : r.symbol = sym)
    IN SubSeq(df, Max(1, Len(df) - WINDOW_SIZE + 1), Len(df))

(* Lines 46-48 with the sample standard deviation (ddof=1) for np.std's    *)
(* population one.                                                         *)
QueryNormSampleStd(query_prices) ==
    LET n == Len(query_prices)
        q_sum == SumSeq(query_prices)
        d == [i \in 1..n |-> n * query_prices[i] - q_sum]
        sumsq == SumSeq([i \in 1..n |-> d[i] * d[i]])
        q_std == 1000 * ISqrt((sumsq * 1000000) \div (n * n * (n - 1)))
    IN [i \in 1..n |-> Quot(d[i] * 100000000, n * (q_std + EpsMicro))]

(* Lines 46-48: the query's own normalisation, in 1/100 like ZScore. *)
QueryNorm(query_prices) ==
    LET n == Len(query_prices)
        q_sum == SumSeq(query_prices)
        d == [i \in 1..n |-> n * query_prices[i] - q_sum]
        q_std == StdMicro(query_prices)
    IN [i \in 1..n |-> Quot(d[i] * 100000000, n * (q_std + EpsMicro))]

(* Line 83 *)
ReturnsStats(results) == [i \in 1..Len(results) |-> results[i].future_return * 100]

(* Line 108 with r >= 0 for r > 0. *)
WinsOrDraws(stats) == Cardinality({i \in DOMAIN stats : stats[i] >= 0})

(* Line 108: sum(r > 0 for r in returns_stats) *)
Wins(stats) == Cardinality({i \in DOMAIN stats : stats[i] > 0})

----------------------------------------------------------------------------
(* search_pattern, 06_search_pattern.py:13-117 *)

QueryTargets == 0..NumSymbols

QueryLocals0 ==
    /\ target_symbol = 0
    /\ q_index = NoFile
    /\ query_vector = <<>>
    /\ found_ids = <<>>
    /\ results_list = <<>>
    /\ match_vectors = <<>>
    /\ win_rate = 0
    /\ avg_ret = 0
    /\ q_out = "none"
    /\ q_meta = NoFile
    /\ q_partial = FALSE

(* Lines 13-19 with a check of the index file alone. *)
QueryCheckIndexOnly ==
    /\ qpc = "idle"
    /\ \E t \in QueryTargets : target_symbol' = t
    /\ IF indexFile = NoFile
       THEN /\ q_out' = "IndexNotBuilt"
            /\ qpc' = "done"
       ELSE /\ q_out' = "none"
            /\ qpc' = "load_index"
    /\ UNCHANGED <<dataset, bvars, q_index, query_vector, found_ids, results_list,
                   match_vectors, win_rate, avg_ret, q_meta, q_partial, q_others>>

(* Lines 13-19: the call, and the check that both files exist. *)
QueryCheck ==
    /\ qpc = "idle"
    /\ \E t \in QueryTargets : target_symbol' = t
    /\ IF indexFile = NoFile \/ metaFile = NoFile
       THEN /\ q_out' = "IndexNotBuilt"
            /\ qpc' = "done"
       ELSE /\ q_out' = "none"
            /\ qpc' = "load_index"
    /\ UNCHANGED <<dataset, bvars, q_index, query_vector, found_ids, results_list,
                   match_vectors, win_rate, avg_ret, q_meta, q_partial, q_others>>

(* Line 22 with a read that takes the file: the index is loaded and the    *)
(* file is gone from the disk.                                             *)
QueryLoadIndexTakesFile ==
    /\ qpc = "load_index"
    /\ q_index' = indexFile
    /\ indexFile' = NoFile
    /\ qpc' = "prepare"
    /\ UNCHANGED <<dataset, metaFile, parts, bpc, index, all_symbols, chunk_idx,
                   total_vectors, run, faults, loadFailed, shardFailed, prev, b_out,
                   target_symbol, query_vector, found_ids, results_list, match_vectors,
                   win_rate, avg_ret, q_out, q_meta, q_partial, q_others>>

(* Line 22, faiss.read_index: a file that is still being written has no    *)
(* complete content and the read raises.                                   *)
QueryLoadIndex ==
    /\ qpc = "load_index"
    /\ IF indexFile.complete
       THEN /\ q_index' = indexFile
            /\ qpc' = "prepare"
            /\ UNCHANGED <<q_out, q_partial>>
       ELSE /\ q_partial' = TRUE
            /\ q_out' = "error"
            /\ qpc' = "done"
            /\ UNCHANGED q_index
    /\ UNCHANGED <<dataset, bvars, target_symbol, query_vector, found_ids, results_list,
                   match_vectors, win_rate, avg_ret, q_meta, q_others>>

(* Lines 25-51: the lazy scan of the metadata reads nothing yet; the       *)
(* target's last WINDOW_SIZE closes are normalised.                        *)
QueryPrepare ==
    /\ qpc = "prepare"
    /\ LET df_target == TargetTail(dataset, target_symbol)
       IN IF Len(df_target) < WINDOW_SIZE
          THEN /\ q_out' = "InsufficientHistory"
               /\ qpc' = "done"
               /\ UNCHANGED query_vector
          ELSE /\ query_vector' = QueryNorm(Column(df_target, "close"))
               /\ qpc' = "search"
               /\ UNCHANGED q_out
    /\ UNCHANGED <<dataset, bvars, target_symbol, q_index, found_ids, results_list,
                   match_vectors, win_rate, avg_ret, q_meta, q_partial, q_others>>

(* Lines 55-56: the faiss wrapper asserts that the query has the index's   *)
(* dimension (AssertionError), then searches.                              *)
QuerySearch ==
    /\ qpc = "search"
    /\ IF Len(query_vector) # q_index.d
       THEN /\ q_out' = "error"
            /\ qpc' = "done"
            /\ UNCHANGED found_ids
       ELSE /\ \E ids \in IndexSearch(q_index, query_vector, TOP_K) : found_ids' = ids
            /\ qpc' = "lookup"
            /\ UNCHANGED q_out
    /\ UNCHANGED <<dataset, bvars, target_symbol, q_index, query_vector, results_list,
                   match_vectors, win_rate, avg_ret, q_meta, q_partial, q_others>>

(* Lines 60-65: collect() reads the metadata file now; the matching rows   *)
(* come back in some order and are sorted into the search's order.         *)
QueryLookup ==
    /\ qpc = "lookup"
    /\ IF metaFile = NoFile
       THEN /\ q_out' = "error"
            /\ qpc' = "done"
            /\ UNCHANGED <<results_list, q_meta, q_partial>>
       ELSE IF ~metaFile.complete
       THEN /\ q_partial' = TRUE
            /\ q_out' = "error"
            /\ qpc' = "done"
            /\ UNCHANGED <<results_list, q_meta>>
       ELSE /\ q_meta' = metaFile
            /\ \E df_results \in Perms(MetaLookup(metaFile.rows, found_ids)) :
                   results_list' = RankResults(df_results, found_ids)
            /\ qpc' = "aggregate"
            /\ UNCHANGED <<q_out, q_partial>>
    /\ UNCHANGED <<dataset, bvars, target_symbol, q_index, query_vector, found_ids,
                   match_vectors, win_rate, avg_ret, q_others>>

(* Lines 73-117: the loop over the results, then the statistics; with no   *)
(* result the division by len(returns_stats) raises ZeroDivisionError.     *)
QueryAggregate ==
    /\ qpc = "aggregate"
    /\ LET returns_stats == ReturnsStats(results_list)
       IN /\ match_vectors' = [i \in 1..Len(results_list) |->
                                  Reconstruct(q_index, results_list[i].row_id)]
          /\ IF Len(returns_stats) = 0
             THEN /\ q_out' = "error"
                  /\ UNCHANGED <<win_rate, avg_ret>>
             ELSE /\ win_rate' = Quot(Wins(returns_stats) * 10000, Len(returns_stats))
                  /\ avg_ret' = Quot(SumSeq(returns_stats), Len(returns_stats))
                  /\ q_out' = "ok"
    /\ qpc' = "done"
    /\ UNCHANGED <<dataset, bvars, target_symbol, q_index, query_vector, found_ids,
                   results_list, q_meta, q_partial, q_others>>

(* The call returns and its locals are gone. *)
QueryReturn ==
    /\ qpc = "done"
    /\ qpc' = "idle"
    /\ target_symbol' = 0
    /\ q_index' = NoFile
    /\ query_vector' = <<>>
    /\ found_ids' = <<>>
    /\ results_list' = <<>>
    /\ match_vectors' = <<>>
    /\ win_rate' = 0
    /\ avg_ret' = 0
    /\ q_out' = "none"
    /\ q_meta' = NoFile
    /\ q_partial' = FALSE
    /\ UNCHANGED <<dataset, bvars, q_others>>

(* The locals of the call in progress, as one record. *)
QueryContext ==
    [qpc |-> qpc, target_symbol |-> target_symbol, q_index |-> q_index,
     query_vector |-> query_vector, found_ids |-> found_ids, results_list |-> results_list,
     match_vectors |-> match_vectors, win_rate |-> win_rate, avg_ret |-> avg_ret,
     q_out |-> q_out, q_meta |-> q_meta, q_partial |-> q_partial]

(* The locals of a caller that has not called yet. *)
IdleContext ==
    [qpc |-> "idle", target_symbol |-> 0, q_index |-> NoFile,
     query_vector |-> <<>>, found_ids |-> <<>>, results_list |-> <<>>,
     match_vectors |-> <<>>, win_rate |-> 0, avg_ret |-> 0,
     q_out |-> "none", q_meta |-> NoFile, q_partial |-> FALSE]

(* Another caller runs next: each call of search_pattern has its own       *)
(* locals (index, lf_meta, query_norm, found_ids, results_list,            *)
(* returns_stats, ...), and the function assigns no global and writes no   *)
(* file, so taking turns exchanges the locals and nothing else.            *)
QuerySwitch ==
    /\ \E i \in DOMAIN q_others :
           /\ q_others' = [q_others EXCEPT ![i] = QueryContext]
           /\ qpc' = q_others[i].qpc
           /\ target_symbol' = q_others[i].target_symbol
           /\ q_index' = q_others[i].q_index
           /\ query_vector' = q_others[i].query_vector
           /\ found_ids' = q_others[i].found_ids
           /\ results_list' = q_others[i].results_list
           /\ match_vectors' = q_others[i].match_vectors
           /\ win_rate' = q_others[i].win_rate
           /\ avg_ret' = q_others[i].avg_ret
           /\ q_out' = q_others[i].q_out
           /\ q_meta' = q_others[i].q_meta
           /\ q_partial' = q_others[i].q_partial
    /\ UNCHANGED <<dataset, bvars>>

QueryStep ==
    \/ QueryLoadIndex
    \/ QueryPrepare
    \/ QuerySearch
    \/ QueryLookup
    \/ QueryAggregate
    \/ QueryReturn

QueryNext == QueryCheck \/ QueryStep

----------------------------------------------------------------------------
(* Specifications *)

(* Neither function has been called by this caller. *)
NoCallYet ==
    /\ bpc = "idle"
    /\ index = <<>>
    /\ all_symbols = <<>>
    /\ chunk_idx = 0
    /\ total_vectors = 0
    /\ run = 0
    /\ faults = 0
    /\ loadFailed = {}
    /\ shardFailed = {}
    /\ prev = [index |-> NoFile, meta |-> NoFile]
    /\ b_out = "none"
    /\ qpc = "idle"
    /\ QueryLocals0

(* Neither function has been called, and there is no other caller. *)
NoCall ==
    /\ q_others = <<>>
    /\ NoCallYet

(* Neither function has been called; no shard is on disk. *)
NotStarted ==
    /\ parts = <<>>
    /\ NoCall

BuildInit ==
    /\ indexFile = NoFile
    /\ metaFile = NoFile
    /\ NotStarted

(* A small dataset: NumSymbols symbols, each with a series around the      *)
(* shortest length that yields a window.                                   *)
Init ==
    /\ \E lens \in [1..NumSymbols -> MinLen..MaxLen] :
           dataset = DatasetRows(lens, NumSymbols)
    /\ BuildInit

(* Rebuilding is offline: a build starts when no query runs, and a query   *)
(* starts when no build runs.                                              *)
Next ==
    \/ qpc = "idle" /\ ReadSymbols
    \/ qpc = "idle" /\ ReadSymbolsFails
    \/ BuildStep
    \/ BuildStopped /\ QueryCheck
    \/ QueryStep

Spec == Init /\ [][Next]_vars

(* A query that runs while the index is rebuilt. *)
InitConc ==
    /\ \E extra \in {0, 1} :
           dataset = DatasetRows([s \in 1..NumSymbols |-> MinLen + extra * (1 + (s % 2))],
                                 NumSymbols)
    /\ BuildInit

NextConc == BuildNext \/ QueryNext

SpecConc == InitConc /\ [][NextConc]_vars

(* Builds of a dataset of more than ten batches, every symbol with one     *)
(* window or every symbol with none.                                       *)
ManySymbols == 10 * BATCH_SIZE + 1

InitMany ==
    /\ \E extra \in {0, 1} :
           dataset = DatasetRows([s \in 1..ManySymbols |-> MinLen + extra], ManySymbols)
    /\ BuildInit

SpecMany == InitMany /\ [][BuildNext]_vars

(* Builds of a dataset of more than ten batches in which every symbol has  *)
(* one window but two neighbouring symbols (or the last symbol), which     *)
(* have none: one batch without a window where unique() gives the symbols  *)
(* in the order that puts the two in one batch.  Or no symbol has a        *)
(* window.                                                                 *)
InitGap ==
    /\ \E e \in 0..(ManySymbols \div BATCH_SIZE), w \in {0, 1} :
           dataset = DatasetRows([s \in 1..ManySymbols |->
                                     IF (s - 1) \div BATCH_SIZE = e
                                     THEN MinLen ELSE MinLen + w],
                                 ManySymbols)
    /\ BuildInit

SpecGap == InitGap /\ [][BuildNext]_vars

(* Builds of a dataset of one symbol, with a series of any length up to    *)
(* MaxLen.                                                                 *)
InitOne ==
    /\ \E s \in 1..NumSymbols, len \in 0..MaxLen : dataset = Series(s, len)
    /\ BuildInit

SpecOne == InitOne /\ [][BuildNext]_vars

(* Builds of a dataset of at most two symbols, each with a series of any   *)
(* length up to MaxLen.                                                    *)
InitTwo ==
    /\ \E lens \in [1..NumSymbols -> 0..MaxLen] :
           /\ Cardinality({s \in 1..NumSymbols : lens[s] > 0}) <= 2
           /\ dataset = DatasetRows(lens, NumSymbols)
    /\ BuildInit

SpecTwo == InitTwo /\ [][BuildNext]_vars

(* Builds of a dataset of 0 to 2 * BATCH_SIZE + 1 symbols, each with one   *)
(* window: no batch, one batch, full batches, and a last shorter batch.    *)
SplitSymbols == 2 * BATCH_SIZE + 1

InitSplit ==
    /\ \E n \in 0..SplitSymbols :
           dataset = DatasetRows([s \in 1..n |-> WINDOW_SIZE + PREDICT_HORIZON], n)
    /\ BuildInit

SpecSplit == InitSplit /\ [][BuildNext]_vars

(* Artifacts found on disk that no run of this model wrote: an index of    *)
(* dimension d holding the one vector of a flat window of sym, and the     *)
(* metadata table that goes with it.                                       *)
OldIndex(d, sym) ==
    LET row == [vec |-> [k \in 1..d |-> 0], raw |-> [k \in 1..d |-> Close(sym, 1)],
                sym |-> sym, end |-> d]
    IN [exists |-> TRUE, rows |-> <<row>>, complete |-> TRUE, run |-> 0,
        d |-> d, ntotal |-> 1, codes |-> Codes(<<row>>)]

OldMeta(d, sym) ==
    [exists |-> TRUE, rows |-> <<[symbol |-> sym, date |-> d, future_return |-> 0]>>,
     complete |-> TRUE, run |-> 0]

(* Builds and queries, one after the other, of a dataset of one symbol     *)
(* with a series of any length up to MaxLen and, or not, a second symbol   *)
(* with one window.  The disk starts empty, or with a metadata table whose *)
(* index file is gone, or with the artifacts of a build whose WINDOW_SIZE  *)
(* was one more than it is now.                                            *)
InitDisk ==
    /\ \E s \in 1..NumSymbols, len \in 0..MaxLen, t \in {0, WINDOW_SIZE + PREDICT_HORIZON} :
           dataset = DatasetRows([x \in 1..NumSymbols |->
                                     IF x = s THEN len
                                     ELSE IF x = (s % NumSymbols) + 1 THEN t ELSE 0],
                                 NumSymbols)
    /\ \/ indexFile = NoFile /\ metaFile = NoFile
       \/ indexFile = NoFile /\ metaFile = OldMeta(WINDOW_SIZE, NumSymbols)
       \/ /\ indexFile = OldIndex(WINDOW_SIZE + 1, NumSymbols)
          /\ metaFile = OldMeta(WINDOW_SIZE + 1, NumSymbols)
    /\ NotStarted

SpecDisk == InitDisk /\ [][Next]_vars

(* Builds of a dataset of one symbol that start on a disk where an earlier *)
(* build, killed before its merge, has left one shard (part_0 or part_1),  *)
(* next to no artifact or to the artifacts of a build before that.         *)
InitStale ==
    /\ \E s \in 1..NumSymbols, len \in 0..MaxLen : dataset = Series(s, len)
    /\ \E c \in 0..1 : parts = (c :> OldMeta(WINDOW_SIZE, NumSymbols).rows)
    /\ \/ indexFile = NoFile /\ metaFile = NoFile
       \/ /\ indexFile = OldIndex(WINDOW_SIZE, NumSymbols)
          /\ metaFile = OldMeta(WINDOW_SIZE, NumSymbols)
    /\ NoCall

SpecStale == InitStale /\ [][BuildNext]_vars

(* No caller is inside search_pattern. *)
AllIdle == qpc = "idle" /\ \A i \in DOMAIN q_others : q_others[i].qpc = "idle"

(* Builds that meet no failure, of a dataset of one symbol (the first or   *)
(* the last) with no window or with the most, and between the builds the   *)
(* queries of MaxCallers callers, run in any interleaving with each other. *)
InitReaders ==
    /\ \E s \in {1, NumSymbols}, len \in {MinLen, MaxLen} : dataset = Series(s, len)
    /\ indexFile = NoFile
    /\ metaFile = NoFile
    /\ parts = <<>>
    /\ q_others = [i \in 1..(MaxCallers - 1) |-> IdleContext]
    /\ NoCallYet

NextReaders ==
    \/ AllIdle /\ ReadSymbols
    \/ RemoveOldMeta
    \/ RemoveOldParts
    \/ BatchDone
    \/ WriteIndexBegin
    \/ WriteIndexEnd
    \/ MergeNothing
    \/ MergeBegin
    \/ MergeEnd
    \/ RemoveParts
    \/ BuildStopped /\ QueryCheck
    \/ QueryStep
    \/ QuerySwitch

SpecReaders == InitReaders /\ [][NextReaders]_vars

----------------------------------------------------------------------------
(* Properties of the built artifacts *)

(* The run has finished and its merge did not fail: the shards are gone. *)
BuildFinished == bpc = "done" /\ DOMAIN parts = {}

(* The close of a symbol at a timestamp, from the dataset. *)
CloseAt(sym, ts) ==
    LET i == CHOOSE k \in DOMAIN dataset : dataset[k].symbol = sym /\ dataset[k].ts = ts
    IN dataset[i].close

(* The outcome of the window of sym whose last close is at timestamp end:  *)
(* close[end + H] / close[end] - 1.                                        *)
OutcomeOf(sym, end) ==
    FutureReturn(CloseAt(sym, end + PREDICT_HORIZON), CloseAt(sym, end))

(* Whether a metadata row describes the window an index row was computed from. *)
Describes(meta_row, index_row) ==
    /\ meta_row.symbol = index_row.sym
    /\ meta_row.date = index_row.end
    /\ meta_row.future_return = OutcomeOf(index_row.sym, index_row.end)

(* The metadata rows of batch c of this run. *)
BatchRows(c) == MetaFrame(ProcessBatch(LoadBatch(dataset, SymbolChunks(all_symbols)[c + 1])))

(* The rows of the batches c, c+1, ... whose load did not fail, in batch order. *)
RECURSIVE LoadedRowsFrom(_)
LoadedRowsFrom(c) ==
    IF c >= NumChunks THEN <<>>
    ELSE (IF c \in loadFailed THEN <<>> ELSE BatchRows(c)) \o LoadedRowsFrom(c + 1)

(* C1: after every build_index run that finishes, whatever batches failed  *)
(* to load and whether or not a shard write failed, the persisted index    *)
(* holds as many vectors as the persisted metadata table holds rows.       *)
(* Stated here for the runs that leave a metadata table.                   *)
C1_IndexCountEqualsMetadataRows ==
    (BuildFinished /\ metaFile.exists) => Len(indexFile.rows) = Len(metaFile.rows)

(* C2: in the built artifacts, the metadata row at every row_id describes  *)
(* the window whose vector the index holds at that row_id.  Stated here    *)
(* for the runs that meet no failure at all.                               *)
C2_MetadataRowDescribesVector ==
    (BuildFinished /\ faults = 0) =>
        /\ Len(metaFile.rows) = Len(indexFile.rows)
        /\ \A r \in 1..Len(indexFile.rows) : Describes(metaFile.rows[r], indexFile.rows[r])

(* C3: when the load of a batch fails, the batch adds nothing, the build   *)
(* goes on, and the final metadata holds exactly the rows of the batches   *)
(* that loaded, in batch order, each describing the vector at its row_id.  *)
(* Stated here for the runs in which no shard write failed.                *)
C3_FailedLoadLeavesNoGap ==
    (BuildFinished /\ loadFailed # {} /\ shardFailed = {}) =>
        /\ metaFile.rows = LoadedRowsFrom(0)
        /\ Len(indexFile.rows) = Len(metaFile.rows)
        /\ \A r \in 1..Len(indexFile.rows) : Describes(metaFile.rows[r], indexFile.rows[r])

(* C4: the merged metadata table is the concatenation of the shards in     *)
(* ascending numeric batch index.                                          *)
C4_ShardsMergedInBatchOrder ==
    bpc = "rm_new_parts" =>
        LET order == SortedSeq(DOMAIN parts)
        IN metaFile.rows = Concat([i \in 1..Len(order) |-> parts[order[i]]])

Vectors(rows) == [r \in 1..Len(rows) |-> rows[r].vec]

(* C5: a second run over the same dataset, neither run meeting a failure,  *)
(* leaves the index and the metadata table the first run left.             *)
C5_RebuildIsDeterministic ==
    (BuildFinished /\ faults = 0 /\ run = 2) =>
        /\ Vectors(indexFile.rows) = Vectors(prev.index.rows)
        /\ metaFile.rows = prev.meta.rows

(* C6: a query never loads an index file or a metadata file that is only   *)
(* partly written.                                                         *)
C6_QueryNeverReadsPartialFile == ~q_partial

(* The row_ids of the search that are not placeholders and have no row in  *)
(* the metadata table the query read.                                      *)
Unresolved ==
    {found_ids[p] : p \in {k \in DOMAIN found_ids :
                             found_ids[k] >= Len(q_meta.rows)}}

(* C7: a query whose search returns a row_id with no metadata row fails    *)
(* (any failure counts here) and reports no results and no aggregates.     *)
C7_UnresolvedRowIdIsFatal ==
    (qpc = "done" /\ q_meta.exists /\ Unresolved # {}) =>
        q_out # "ok" /\ results_list = <<>>

(* C8: a query with TOP_K above the index's row count N >= 1 ends without  *)
(* error with exactly N results, the rows 0..N-1, and aggregates over      *)
(* them.  Stated here for the queries that read a complete metadata file.  *)
C8_FewerRowsThanK ==
    (qpc = "done" /\ q_meta.exists /\ Len(q_index.rows) >= 1 /\ Len(q_index.rows) < TOP_K) =>
        /\ q_out = "ok"
        /\ Len(results_list) = Len(q_index.rows)
        /\ \A i \in DOMAIN results_list : results_list[i].row_id >= 0
        /\ win_rate = Quot(Wins(ReturnsStats(results_list)) * 10000, Len(q_index.rows))
        /\ avg_ret = Quot(SumSeq(ReturnsStats(results_list)), Len(q_index.rows))

(* C9: the i-th result is the metadata row of the i-th row_id the search   *)
(* returned, for every position i of the result list.                      *)
C9_ResultsInSearchOrder ==
    (qpc \in {"aggregate", "done"} /\ q_meta.exists) =>
        \A i \in DOMAIN results_list :
            /\ results_list[i].row_id = found_ids[i]
            /\ results_list[i] = WithRowIndex(q_meta.rows)[found_ids[i] + 1]

(* The batch loop of this run has ended with every batch loaded. *)
BatchesDone ==
    /\ bpc \in {"batches", "index_writing", "merge", "meta_writing", "rm_new_parts", "done"}
    /\ chunk_idx = NumChunks
    /\ loadFailed = {}

(* The offsets i (from 0) of a series of L points at which a window is     *)
(* materialized: i + W - 1 + H < L.                                        *)
ValidOffsets(L) == {i \in 0..L : i + WINDOW_SIZE - 1 + PREDICT_HORIZON < L}

(* C10: a build of one symbol's series of L points materializes exactly    *)
(* max(0, L - W - H + 1) windows, one per valid offset and in offset       *)
(* order, and a series too short for a window is no error.                 *)
C10_WindowCount ==
    BatchesDone =>
        LET L == Len(dataset)
        IN /\ Len(index) = Max(0, L - WINDOW_SIZE - PREDICT_HORIZON + 1)
           /\ Len(index) = Cardinality(ValidOffsets(L))
           /\ \A j \in 1..Len(index) :
                  /\ (j - 1) \in ValidOffsets(L)
                  /\ index[j].end = dataset[j + WINDOW_SIZE - 1].ts

(* A series of exactly W + H points has given one window. *)
C10_Witness ==
    /\ BatchesDone
    /\ bpc = "done"
    /\ Len(dataset) = WINDOW_SIZE + PREDICT_HORIZON
    /\ Len(indexFile.rows) = 1

(* The number of points of a symbol's series in the dataset. *)
SeriesLen(sym) == Cardinality({k \in DOMAIN dataset : dataset[k].symbol = sym})

(* The rows the index holds before the rows of batch c: those of the       *)
(* batches before c that have a shard.                                     *)
RowsBefore(c) ==
    SumSeq([b \in 1..c |-> IF (b - 1) \in DOMAIN parts THEN Len(parts[b - 1]) ELSE 0])

(* Whether the vector v and the metadata row m are those of one window of  *)
(* symbol m.symbol that ends at timestamp m.date: with i = m.date - W the  *)
(* window's offset, v was computed from the closes i .. i+W-1 of that      *)
(* symbol, and the outcome is close[end+H] / close[end] - 1 with end + H   *)
(* inside the symbol's series (timestamps count from 1, offsets from 0).   *)
IsWindowOf(v, m) ==
    /\ m.date - WINDOW_SIZE >= 0
    /\ m.date + PREDICT_HORIZON <= SeriesLen(m.symbol)
    /\ v.sym = m.symbol
    /\ v.end = m.date
    /\ v.raw = [k \in 1..WINDOW_SIZE |-> CloseAt(m.symbol, m.date - WINDOW_SIZE + k)]
    /\ m.future_return * CloseAt(m.symbol, m.date) <=
           (CloseAt(m.symbol, m.date + PREDICT_HORIZON) - CloseAt(m.symbol, m.date)) * 10000
    /\ (m.future_return + 1) * CloseAt(m.symbol, m.date) >
           (CloseAt(m.symbol, m.date + PREDICT_HORIZON) - CloseAt(m.symbol, m.date)) * 10000

(* C11: every window a batch materializes is W consecutive closes of one   *)
(* symbol; the date stored with it is the timestamp of its last close and  *)
(* the outcome stored with it is close[end+H] / close[end] - 1, with end+H *)
(* inside that symbol's series.  Checked on each batch's shard and the     *)
(* vectors added with it, when the batch loop of a run without failure     *)
(* has ended and the shards are still on disk.                             *)
C11_WindowDateOutcome ==
    (BatchesDone /\ bpc # "done" /\ faults = 0) =>
        /\ Len(index) = RowsBefore(NumChunks)
        /\ \A c \in DOMAIN parts : \A j \in 1..Len(parts[c]) :
               IsWindowOf(index[RowsBefore(c) + j], parts[c][j])

(* Two symbols of one batch have each given a window, one of them two. *)
C11_Witness ==
    /\ BatchesDone
    /\ bpc # "done"
    /\ faults = 0
    /\ Len(index) >= 3
    /\ Cardinality({index[r].sym : r \in DOMAIN index}) = 2
    /\ \E c \in DOMAIN parts : Len(parts[c]) = Len(index)

(* C12: the batches are consecutive slices of the symbol list, ceil(n/B)   *)
(* of them, all of B symbols but the last, which has 1 to B; their         *)
(* concatenation is the list and every symbol is in exactly one batch.     *)
(* The batch loop runs once per batch and, every symbol having a window,   *)
(* the shard of batch c holds the rows of exactly the symbols of slice c.  *)
C12_BatchesPartitionSymbols ==
    (BatchesDone /\ bpc # "done" /\ faults = 0) =>
        LET n == Len(all_symbols)
            symbol_chunks == SymbolChunks(all_symbols)
            m == Len(symbol_chunks)
        IN /\ m * BATCH_SIZE >= n
           /\ m > 0 => (m - 1) * BATCH_SIZE < n
           /\ Concat(symbol_chunks) = all_symbols
           /\ \A c \in 1..(m - 1) : Len(symbol_chunks[c]) = BATCH_SIZE
           /\ m > 0 => (Len(symbol_chunks[m]) >= 1 /\ Len(symbol_chunks[m]) <= BATCH_SIZE)
           /\ \A sym \in SymbolsOf(dataset) :
                  Cardinality({c \in 1..m : \E k \in DOMAIN symbol_chunks[c] :
                                               symbol_chunks[c][k] = sym}) = 1
           /\ chunk_idx = m
           /\ DOMAIN parts = 0..(m - 1)
           /\ \A c \in DOMAIN parts :
                  SymbolsOf(parts[c]) =
                      {all_symbols[k] : k \in (c * BATCH_SIZE + 1)..Min(n, (c + 1) * BATCH_SIZE)}

(* 2B + 1 symbols have gone through the loop: batches of B, B and 1. *)
C12_Witness ==
    /\ BatchesDone
    /\ bpc # "done"
    /\ faults = 0
    /\ Len(all_symbols) = 2 * BATCH_SIZE + 1
    /\ DOMAIN parts = 0..2
    /\ Len(parts[2]) = 1

(* The last W closes of a symbol with at least W points. *)
LastCloses(sym) ==
    [k \in 1..WINDOW_SIZE |-> CloseAt(sym, SeriesLen(sym) - WINDOW_SIZE + k)]

C14_IndexNotBuilt ==
    /\ (qpc # "idle" /\ (~indexFile.exists \/ ~metaFile.exists)) =>
           /\ qpc = "done"
           /\ q_out = "IndexNotBuilt"
           /\ q_index = NoFile
           /\ query_vector = <<>>
           /\ found_ids = <<>>
           /\ q_meta = NoFile
           /\ results_list = <<>>
           /\ match_vectors = <<>>
    /\ q_out = "IndexNotBuilt" => (~indexFile.exists \/ ~metaFile.exists)

(* A query has ended with IndexNotBuilt where the index file exists and    *)
(* only the metadata file is absent: after a build that gave no window.    *)
C14_Witness ==
    /\ qpc = "done"
    /\ q_out = "IndexNotBuilt"
    /\ indexFile.exists
    /\ indexFile.complete
    /\ ~metaFile.exists
    /\ SeriesLen(target_symbol) >= WINDOW_SIZE

(* The outcomes of the ranked results, in 1/10000. *)
Outcomes == [i \in 1..Len(results_list) |-> results_list[i].future_return]

(* C15: a query that resolves n >= 1 neighbours reports win_rate = the     *)
(* number of results with an outcome strictly above 0, over n, and         *)
(* avg_outcome = the sum of the n outcomes over n, both over exactly the   *)
(* ranked result list.  win_rate is a percentage in 1/100, avg_ret a       *)
(* percentage in 1/10000, both rounded toward zero.                        *)
C15_Aggregates ==
    (qpc = "done" /\ Len(results_list) >= 1) =>
        LET n == Len(results_list)
            wins == Cardinality({i \in 1..n : Outcomes[i] > 0})
        IN /\ q_out = "ok"
           /\ wins <= n
           /\ win_rate * n <= wins * 10000
           /\ (win_rate + 1) * n > wins * 10000
           /\ avg_ret = Quot(SumSeq(Outcomes) * 100, n)
           /\ Len(match_vectors) = n

(* A query has reported on results of which one has an outcome above 0 and *)
(* one an outcome of exactly 0.                                            *)
C15_Witness ==
    /\ qpc = "done"
    /\ q_out = "ok"
    /\ \E i, j \in 1..Len(results_list) : Outcomes[i] > 0 /\ Outcomes[j] = 0
    /\ win_rate > 0

C18_DimensionCheckedAtLoad ==
    (qpc \notin {"idle", "load_index"} /\ indexFile.exists /\ metaFile.exists
        /\ indexFile.complete /\ indexFile.d # WINDOW_SIZE) =>
        /\ qpc = "done"
        /\ q_out = "error"
        /\ q_index = NoFile
        /\ query_vector = <<>>

(* C19: a build of at least one batch in which no batch gives a window     *)
(* ends normally with the warning that no metadata was produced, having    *)
(* written an empty index, and a build stops on an uncaught error only     *)
(* where a failure was injected (none comes from the lack of windows).     *)
(* Stated here for the builds in which no merge raised.                    *)
C19_ZeroVectorBuildWarns ==
    /\ bpc = "crashed" => faults > 0
    /\ (bpc = "done" /\ NumChunks >= 1 /\ chunk_idx = NumChunks /\ index = <<>>
           /\ b_out # "merge_error") =>
           /\ b_out = "no_metadata"
           /\ indexFile.complete
           /\ indexFile.ntotal = 0

(* The shards this run's batches write: one per batch that loaded, gave a  *)
(* window and wrote its shard.                                             *)
ShardsOfRun ==
    [c \in {b \in 0..(NumChunks - 1) :
               b \notin loadFailed /\ b \notin shardFailed /\ BatchRows(b) # <<>>}
        |-> BatchRows(c)]

(* C20: the artifacts a completed build leaves come from that build's      *)
(* inputs alone: the index file holds the vectors this run added, the      *)
(* metadata table holds the rows of this run's shards and nothing of an    *)
(* old index, an old metadata table or a left-over shard, and there is no  *)
(* metadata table when this run wrote no shard.                            *)
C20_StaleFilesDoNotContribute ==
    BuildFinished =>
        /\ indexFile.run = run
        /\ indexFile.rows = index
        /\ IF DOMAIN ShardsOfRun = {}
           THEN ~metaFile.exists
           ELSE metaFile.run = run /\ metaFile.rows = ReadParts(ShardsOfRun)

(* C21: of the failures a build can meet, only the failure to load a       *)
(* batch is recovered (the build goes on to the next batch).  A run in     *)
(* which the write of a batch's shard failed after its vectors were added  *)
(* stops at that batch: it takes no further batch, writes no index file,   *)
(* merges nothing and does not end normally.                               *)
C21_OnlyLoadFailureIsRecovered ==
    /\ (loadFailed # {} /\ faults = Cardinality(loadFailed)) => bpc # "crashed"
    /\ shardFailed # {} =>
           /\ \A c \in shardFailed : chunk_idx <= c + 1
           /\ bpc \in {"batches", "crashed"}
           /\ indexFile.run # run
           /\ b_out \in {"none", "uncaught"}

(* Whether the closes of a window are all equal. *)
IsFlat(window) == \A i, j \in DOMAIN window : window[i] = window[j]

Zeros(n) == [i \in 1..n |-> 0]

(* C22: a window whose W closes are all equal has standard deviation 0,    *)
(* is divided by eps > 0 and gives the all-zero shape vector, for every    *)
(* vector the build adds to the index and for the query vector.            *)
C22_FlatWindowIsZeroVector ==
    /\ EpsMicro > 0
    /\ \A r \in DOMAIN index :
           IsFlat(index[r].raw) =>
               /\ StdMicro(index[r].raw) = 0
               /\ StdMicro(index[r].raw) + EpsMicro > 0
               /\ index[r].vec = Zeros(WINDOW_SIZE)
    /\ (query_vector # <<>> /\ IsFlat(LastCloses(target_symbol))) =>
           /\ StdMicro(LastCloses(target_symbol)) = 0
           /\ StdMicro(LastCloses(target_symbol)) + EpsMicro > 0
           /\ query_vector = Zeros(WINDOW_SIZE)

(* A query for a symbol whose last W closes are equal has ended on an      *)
(* index this model's build wrote from a window of equal closes.           *)
C22_Witness ==
    /\ qpc = "done"
    /\ q_out = "ok"
    /\ IsFlat(LastCloses(target_symbol))
    /\ query_vector = Zeros(WINDOW_SIZE)
    /\ q_index.run > 0
    /\ \E r \in DOMAIN q_index.rows : IsFlat(q_index.rows[r].raw)

(* What a call reports: how it ended, the ranked list and the aggregates. *)
Report(out, results, wr, ar) ==
    [q_out |-> out, results_list |-> results, win_rate |-> wr, avg_ret |-> ar]

(* The report of a call that has resolved the list results. *)
ReportOf(results) ==
    IF results = <<>> THEN Report("error", results, 0, 0)
    ELSE Report("ok", results,
                Quot(Wins(ReturnsStats(results)) * 10000, Len(results)),
                Quot(SumSeq(ReturnsStats(results)), Len(results)))

(* The reports search_pattern(t) can give when it runs alone, from start   *)
(* to end, against the files now on disk.                                  *)
AloneReports(t) ==
    IF indexFile = NoFile \/ metaFile = NoFile
    THEN {Report("IndexNotBuilt", <<>>, 0, 0)}
    ELSE IF ~indexFile.complete THEN {Report("error", <<>>, 0, 0)}
    ELSE IF Len(TargetTail(dataset, t)) < WINDOW_SIZE
    THEN {Report("InsufficientHistory", <<>>, 0, 0)}
    ELSE IF indexFile.d # WINDOW_SIZE \/ ~metaFile.complete
    THEN {Report("error", <<>>, 0, 0)}
    ELSE UNION {{ReportOf(RankResults(df, ids)) :
                    df \in Perms(MetaLookup(metaFile.rows, ids))} :
                ids \in IndexSearch(indexFile,
                                    QueryNorm(Column(TargetTail(dataset, t), "close")),
                                    TOP_K)}

(* The calls in progress: this caller's and the others'. *)
Calls == {QueryContext} \cup {q_others[i] : i \in DOMAIN q_others}

(* C23: queries interleaved with each other change neither the index file  *)
(* nor the metadata file (nor a shard, nor the dataset), and each gives a  *)
(* report (how it ended, ranked list, aggregates) that it can give when it *)
(* runs alone against the same files.                                      *)
C23_ConcurrentQueriesReadOnly ==
    /\ [](\A c \in Calls :
              c.qpc = "done" =>
                  Report(c.q_out, c.results_list, c.win_rate, c.avg_ret)
                      \in AloneReports(c.target_symbol))
    /\ [][qvars' # qvars =>
              /\ indexFile' = indexFile
              /\ metaFile' = metaFile
              /\ parts' = parts
              /\ dataset' = dataset]_vars

(* A call has ended with results while another call for the same target,   *)
(* begun before it ended, has searched and has yet to report.              *)
C23_Witness ==
    /\ qpc = "done"
    /\ q_out = "ok"
    /\ Len(results_list) >= 2
    /\ \E i \in DOMAIN q_others :
           /\ q_others[i].qpc = "aggregate"
           /\ q_others[i].target_symbol = target_symbol
           /\ Len(q_others[i].results_list) >= 2

(* The rows of the query's index that were computed from the closes w. *)
RowsOfWindow(w) == {r \in 0..(q_index.ntotal - 1) : q_index.rows[r + 1].raw = w}

(* The squared distance of row r of the query's index to the query vector. *)
DistanceTo(r) == L2Sqr(Reconstruct(q_index, r), query_vector)

(* C24: the vector the build stores for a window is the vector the query's *)
(* normalisation gives for the same W closes; so a query whose window is   *)
(* stored in the index has every row of that window at distance 0, its     *)
(* nearest neighbour is at distance 0, and a row of that window is among   *)
(* the neighbours returned.                                                *)
C24_QueryNormalizesAsBuild ==
    /\ \A r \in DOMAIN index : index[r].vec = QueryNorm(index[r].raw)
    /\ (qpc \in {"lookup", "aggregate", "done"} /\ found_ids # <<>>) =>
           LET stored == RowsOfWindow(LastCloses(target_symbol))
           IN stored # {} =>
                  /\ \A r \in stored : DistanceTo(r) = 0
                  /\ DistanceTo(found_ids[1]) = 0
                  /\ \E p \in DOMAIN found_ids : found_ids[p] \in stored

(* A query whose window of unequal closes is stored in an index this       *)
(* model's build wrote, next to a row of another window, has ended with    *)
(* the stored row first.                                                   *)
C24_Witness ==
    /\ qpc = "done"
    /\ q_out = "ok"
    /\ q_index.run > 0
    /\ ~IsFlat(LastCloses(target_symbol))
    /\ found_ids[1] \in RowsOfWindow(LastCloses(target_symbol))
    /\ \E r \in 0..(q_index.ntotal - 1) : DistanceTo(r) > 0

(* The symbols of batch c (from 0) of this run. *)
BatchSymbols(c) ==
    LET symbols_batch == SymbolChunks(all_symbols)[c + 1]
    IN {symbols_batch[k] : k \in DOMAIN symbols_batch}

(* C25: the rows of a batch's shard and the vectors the batch added to the *)
(* index are in one order: row j of the shard and the j-th vector of the   *)
(* batch's row_id range are of the same symbol and window end; the rows    *)
(* ascend by symbol and, within a symbol, by timestamp, so each symbol is  *)
(* one block; the symbols present are exactly the batch's symbols with at  *)
(* least W + H points; and the ranges of the batches follow each other     *)
(* without gap, each batch's vectors having been added at once.  Checked   *)
(* when the batch loop of a run without failure has ended.                 *)
C25_BatchOrder ==
    (BatchesDone /\ bpc # "done" /\ faults = 0) =>
        /\ Len(index) = RowsBefore(NumChunks)
        /\ \A c \in DOMAIN parts :
               LET shard == parts[c]
                   first == RowsBefore(c)
               IN /\ shard # <<>>
                  /\ \A j \in 1..Len(shard) :
                         /\ index[first + j].sym = shard[j].symbol
                         /\ index[first + j].end = shard[j].date
                  /\ \A j \in 1..(Len(shard) - 1) :
                         \/ shard[j].symbol < shard[j + 1].symbol
                         \/ /\ shard[j].symbol = shard[j + 1].symbol
                            /\ shard[j].date < shard[j + 1].date
                  /\ SymbolsOf(shard) =
                         {sym \in BatchSymbols(c) :
                             SeriesLen(sym) >= WINDOW_SIZE + PREDICT_HORIZON}
        /\ \A c \in 0..(NumChunks - 1) :
               (\A sym \in BatchSymbols(c) : SeriesLen(sym) < WINDOW_SIZE + PREDICT_HORIZON)
                   => c \notin DOMAIN parts

(* A batch whose symbol list came as (higher, lower) has given two windows *)
(* of the lower symbol, then one of the higher.                            *)
C25_Witness ==
    /\ BatchesDone
    /\ bpc # "done"
    /\ faults = 0
    /\ Len(all_symbols) = 2
    /\ all_symbols[1] > all_symbols[2]
    /\ 0 \in DOMAIN parts
    /\ Len(parts[0]) = 3
    /\ parts[0][1].symbol = all_symbols[2]
    /\ parts[0][2].symbol = all_symbols[2]
    /\ parts[0][3].symbol = all_symbols[1]

(* The batches of this run in which no symbol has a window. *)
EmptyBatches == {c \in 0..(NumChunks - 1) : BatchRows(c) = <<>>}

(* The symbol list without the symbols of the batches that have no window. *)
OtherSymbols ==
    SelectSeq(all_symbols, LAMBDA sym : \A c \in EmptyBatches : sym \notin BatchSymbols(c))

(* What a build without failure leaves for the symbol list symbols: the    *)
(* vectors of its batches in batch order, and the merge of the shards of   *)
(* the batches that have a window, numbered by their place in the list.    *)
BuildOf(symbols) ==
    LET chunks == SymbolChunks(symbols)
        batch(c) == ProcessBatch(LoadBatch(dataset, chunks[c + 1]))
        shards == [c \in {k \in 0..(Len(chunks) - 1) : batch(k).vectors # <<>>}
                      |-> MetaFrame(batch(c))]
    IN [index |-> Concat([k \in 1..Len(chunks) |-> batch(k - 1).vectors]),
        meta |-> ReadParts(shards)]

(* C26: a batch that loads and has no window adds no vector and writes no  *)
(* shard, and the build leaves the index and the metadata table it leaves  *)
(* for the dataset without that batch's symbols: the same vectors and the  *)
(* same rows at the same row_ids.  Stated for the runs without failure.    *)
C26_EmptyBatchContributesNothing ==
    /\ (BatchesDone /\ bpc # "done" /\ faults = 0) =>
           /\ \A c \in EmptyBatches : c \notin DOMAIN parts
           /\ Len(index) = RowsBefore(NumChunks)
           /\ index = BuildOf(OtherSymbols).index
    /\ (BuildFinished /\ faults = 0 /\ EmptyBatches # {}) =>
           /\ indexFile.rows = BuildOf(OtherSymbols).index
           /\ metaFile.rows = BuildOf(OtherSymbols).meta

(* C27: a build whose merge step ends without error leaves no shard on     *)
(* disk and leaves the metadata file, complete; and whenever a step after  *)
(* the batch loop removes a shard, the metadata file already holds the     *)
(* merge of the shards on disk, written by this run.                       *)
C27_ShardsRemovedAfterMerge ==
    /\ []((bpc = "done" /\ b_out = "complete") =>
              /\ DOMAIN parts = {}
              /\ metaFile.exists
              /\ metaFile.complete
              /\ metaFile.run = run)
    /\ [][(bpc # "rm_parts" /\ DOMAIN parts' # DOMAIN parts /\ DOMAIN parts' \subseteq DOMAIN parts) =>
              /\ metaFile = File(ReadParts(parts), TRUE)
              /\ metaFile' = metaFile]_vars

(* A build has merged two shards, its own and one left by an earlier run,  *)
(* and has removed both.                                                   *)
C27_Witness ==
    /\ bpc = "done"
    /\ b_out = "complete"
    /\ DOMAIN parts = {}
    /\ Len(metaFile.rows) >= 2
    /\ Len(index) < Len(metaFile.rows)
    /\ index # <<>>

(* C28: in every state of a build, a crashed one included, an index file   *)
(* and a metadata file that both exist were written by the same run; and   *)
(* the index and the metadata table a query has read are of the same run.  *)
C28_ArtifactsOfOneRun ==
    /\ (indexFile.exists /\ metaFile.exists) => indexFile.run = metaFile.run
    /\ (q_index.exists /\ q_meta.exists) => q_index.run = q_meta.run

(* C29: a build that cannot read the source dataset has returned with the  *)
(* index file and the metadata file as they were when it started and with  *)
(* nothing added to its index, and the step that ends it leaves every      *)
(* shard as it was.                                                        *)
C29_ReadFailureTouchesNothing ==
    /\ [](bpc = "read_failed" =>
             /\ b_out = "read_error"
             /\ indexFile = prev.index
             /\ metaFile = prev.meta
             /\ index = <<>>)
    /\ [][bpc' = "read_failed" => parts' = parts]_vars

(* A build has failed to read the dataset where an index file, a metadata  *)
(* file and a shard were on disk.                                          *)
C29_Witness ==
    /\ bpc = "read_failed"
    /\ indexFile.exists
    /\ metaFile.exists
    /\ DOMAIN parts # {}

(* C30: whenever a query reaches the aggregation step, it has resolved at  *)
(* least one and at most TOP_K neighbours, and the statistics are computed *)
(* without error.                                                          *)
C30_AggregationHasNeighbours ==
    /\ qpc = "aggregate" => (Len(results_list) >= 1 /\ Len(results_list) <= TOP_K)
    /\ (qpc = "done" /\ q_meta # NoFile) => q_out = "ok"

====
